---------------------------- MODULE Spec2Model ----------------------------
(***************************************************************************)
(* A model of sf (send files in LAN): the framed transfer protocol of      *)
(* send/recv in src/src/main.rs, the manifest parser with its common       *)
(* prefix computation, and the top level (run/main).                       *)
(*                                                                         *)
(* Bytes are naturals 0..255, byte strings are sequences of bytes.  Rust   *)
(* indices are 0-based: Slice(s, a, b) is s[a..b].                         *)
(***************************************************************************)
EXTENDS Naturals, Integers, Sequences, FiniteSets, TLC

\* ------------------------------------------------------------------ bounds
\* most files in one file list
MaxFiles == 2
\* longest file body, in bytes
MaxFileLen == 2

\* ------------------------------------------------------ program constants
VERSION == 3
\* CHUNK_SIZE is 4 MiB in the source; the model scales the buffer down so
\* that a file body spans several chunks.
CHUNK_SIZE == 2
\* b'/' and b'\\'
PATH_SEPARATORS == {47, 92}
\* b"sf-"
MAGIC == <<115, 102, 45>>

\* ------------------------------------------------------------ byte helpers
Min(S) == CHOOSE x \in S : \A y \in S : x <= y
Max(S) == CHOOSE x \in S : \A y \in S : x >= y
Min2(a, b) == IF a <= b THEN a ELSE b

\* s[a..b] of Rust (0-based, b exclusive); the caller checks the range
Slice(s, a, b) == SubSeq(s, a + 1, b)

\* Values at or above Huge stand for every length too large for any buffer
\* of the model (TLC's integers are 32 bits wide; a u64 is not).
Huge == 1048576

RECURSIVE to_le_bytes(_, _)
\* n.to_le_bytes() of a w-byte unsigned integer
to_le_bytes(n, w) ==
    IF w = 0 THEN <<>> ELSE <<n % 256>> \o to_le_bytes(n \div 256, w - 1)

RECURSIVE from_le_bytes(_)
\* uN::from_le_bytes(b), saturating at Huge
from_le_bytes(b) ==
    IF b = <<>> THEN 0
    ELSE LET hi == from_le_bytes(Tail(b))
         IN  IF hi >= Huge \div 256 THEN Huge ELSE b[1] + 256 * hi

\* every name passes, as with from_utf8_lossy
from_utf8_lossy_ok(name) == TRUE

\* std::str::from_utf8 on the model's alphabet: the bytes below 128 are
\* ASCII, 255 never occurs in UTF-8
from_utf8_ok(name) == \A k \in 1..Len(name) : name[k] < 128

\* ------------------------------------------------------------ send's layout
\* the name goes out as it is
MapSeparatorsKeeps(name) == name

\* main.rs 57-60: backslash to forward slash, other bytes unchanged
MapSeparators(name) == [k \in 1..Len(name) |-> IF name[k] = 92 THEN 47 ELSE name[k]]

\* main.rs 47-60: one record of the file list
EncodeRecord(file_len, name) ==
    to_le_bytes(file_len, 8) \o to_le_bytes(Len(name), 4) \o MapSeparators(name)

RECURSIVE EncodeRecords(_)
EncodeRecords(fs) ==
    IF fs = <<>> THEN <<>>
    ELSE EncodeRecord(fs[1].len, fs[1].name) \o EncodeRecords(Tail(fs))

\* the length written counts the records only, not the 8 bytes before them
EncodeManifestBodyLen(fs) ==
    LET body == EncodeRecords(fs)
    IN  MAGIC \o <<VERSION>> \o to_le_bytes(Len(body), 4) \o body

\* main.rs 44-64: the file list buffer, its length patched into bytes 4..8
EncodeManifest(fs) ==
    LET body == EncodeRecords(fs)
    IN  MAGIC \o <<VERSION>> \o to_le_bytes(8 + Len(body), 4) \o body

\* the k-th byte (0-based) of the i-th file (1-based) of a file list: every
\* byte names its file and its offset, so a byte written to another file, or
\* at another offset, shows
FileByte(i, k) == 16 * i + k
FileData(i, n) == [k \in 1..n |-> FileByte(i, k - 1)]

\* ------------------------------------------------------- recv's algorithms
\* main.rs 159: prefix.iter().zip(name).position(|(x, y)| x != y), -1 for None
ZipPosition(prefix, name) ==
    LET m == Min2(Len(prefix), Len(name))
        D == {k \in 0..(m - 1) : prefix[k + 1] # name[k + 1]}
    IN  IF D = {} THEN -1 ELSE Min(D)

NoPrefix == [some |-> FALSE, v |-> <<>>]
SomePrefix(b) == [some |-> TRUE, v |-> b]

\* an empty running prefix is taken for no prefix yet
NextCommonPrefixEmptyIsNone(cp, name) ==
    IF ~cp.some \/ cp.v = <<>> THEN SomePrefix(name)
    ELSE LET p == ZipPosition(cp.v, name)
         IN  IF p >= 0 THEN SomePrefix(Slice(cp.v, 0, p)) ELSE cp

\* main.rs 156-165: the running common prefix after one more name
NextCommonPrefix(cp, name) ==
    IF ~cp.some THEN SomePrefix(name)
    ELSE LET p == ZipPosition(cp.v, name)
         IN  IF p >= 0 THEN SomePrefix(Slice(cp.v, 0, p)) ELSE cp

\* position in place of rposition: one past the first separator
CommonPrefixLenFirstSeparator(cp) ==
    LET D == {k \in 0..(Len(cp.v) - 1) : cp.v[k + 1] \in PATH_SEPARATORS}
    IN  IF D = {} THEN 0 ELSE Min(D) + 1

\* main.rs 174-183: one past the last separator of the common prefix, or 0
CommonPrefixLen(cp) ==
    LET D == {k \in 0..(Len(cp.v) - 1) : cp.v[k + 1] \in PATH_SEPARATORS}
    IN  IF D = {} THEN 0 ELSE Max(D) + 1

\* std::path::Path::parent on a Unix path, as bytes: the path without its
\* last component; <<>> is the empty path.  has |-> FALSE is None.
RECURSIVE TrimSlashes(_)
TrimSlashes(p) ==
    IF Len(p) > 1 /\ p[Len(p)] = 47 THEN TrimSlashes(SubSeq(p, 1, Len(p) - 1)) ELSE p

PathParent(path) ==
    LET p == TrimSlashes(path)
        D == {k \in 1..Len(p) : p[k] = 47}
    IN  IF p = <<>> \/ p = <<47>> THEN [has |-> FALSE, dir |-> <<>>]
        ELSE IF D = {} THEN [has |-> TRUE, dir |-> <<>>]
        ELSE IF Max(D) = 1 THEN [has |-> TRUE, dir |-> <<47>>]
        ELSE [has |-> TRUE, dir |-> TrimSlashes(SubSeq(p, 1, Max(D) - 1))]

\* ------------------------------------------------------------------- state
VARIABLES
    \* the sender: its file list as stat-ed (name, len), the size of each
    \* file on disk now, its place in send, the file list buffer, the index
    \* of the file being streamed and the offset in it, send's result
    sfiles, disk, spc, sbuffer, si, soff, sres,
    \* history: a read of a source file failed; a file changed its size
    readFailed, resized,
    \* history: the byte of the file list a foreign peer changed, (0 for none)
    mut,
    \* the stream, sender to receiver: bytes written and not yet read, and
    \* whether the sender's end is closed
    wire, wclosed,
    \* the receiver: args::PathPrefix, its place in recv, and recv's locals
    prefix, rpc, u32_buffer, buffer_len, buffer, i, common_prefix, files,
    common_prefix_len, fi, file_len, created_dirs,
    \* the receiver's filesystem calls in order (create_dir_all, File::create
    \* with the bytes written to the file since), the number of bytes read
    \* from the stream, recv's result
    fsops, consumed, rres,
    \* the exit of each process: NoExit, or main's exit code and whether
    \* "FATAL:" was printed
    sexit, rexit,
    \* connection establishment: what get_ip_addresses returns, the address
    \* recv chose, the TcpListener (closed, open or dropped; non-blocking or
    \* not), the connections made to it and not yet accepted, the
    \* connections accepted (who, and by the survey or by the fallback),
    \* how the survey ended, the number of datagrams broadcast, and the
    \* senders that look for this receiver
    ifaddrs, addr, listener, backlog, accepted, survey, broadcasts, snd,
    \* the datagram the survey sent last (where to, and its bytes)
    datagram,
    \* one call of an address function on its own: its arguments and what it
    \* returned
    call

svars == <<sfiles, disk, spc, sbuffer, si, soff, sres, readFailed, resized, mut>>
wvars == <<wire, wclosed>>
pvars == <<u32_buffer, buffer_len, buffer, i, common_prefix, files, common_prefix_len>>
fvars == <<fi, file_len, created_dirs, fsops>>
rvars == <<prefix, rpc, pvars, fvars, consumed, rres>>
xvars == <<sexit, rexit>>
cvars == <<ifaddrs, addr, listener, backlog, accepted, survey, broadcasts, snd>>
uvars == <<datagram, call>>
vars == <<svars, wvars, rvars, xvars, cvars, uvars>>

NoExit == [code |-> -1, fatal |-> FALSE]

\* ------------------------------------------------------------------ inputs
\* the paths of the sender's files: "a", "ab/c", "ab\d", walked in this
\* order from any of them on
SendNames == <<<<97>>, <<97, 98, 47, 99>>, <<97, 98, 92, 100>>>>

SendLists ==
    UNION {{[k \in 1..n |-> [name |-> SendNames[((k + r) % Len(SendNames)) + 1],
                             len |-> lens[k]]] :
               lens \in [1..n -> 0..MaxFileLen], r \in 1..Len(SendNames)} :
           n \in 0..MaxFiles}

FileLists(names, lens) ==
    UNION {[1..n -> [name : names, len : lens]] : n \in 0..MaxFiles}

\* ------------------------------------------------------------ main, 342-350
\* the ways a run ends other than by returning: the panics of recv
\* (buffer_len - 8 at 134, a slice of the file list buffer at 145-153, the
\* slice of a name at 190)
Panics == {"panic_sub_overflow", "panic_slice", "panic_strip"}

\* more panics: get_ip_addresses().expect(..)[0] at 95, make_broadcast_addr
\* at 239, set_nonblocking(false).unwrap() at 109, accept().expect(..) at
\* 110, ip.parse().expect(..) at args.rs 87
ConnPanics == {"panic_no_address", "panic_mask_version", "panic_set_blocking",
               "panic_no_client", "panic_invalid_ip"}

\* the exit code of a process whose run ended with res: 0 for Ok, 1 after
\* "FATAL: ..." for Err; a panic unwinds past main (exit code 101, the
\* panic message and no "FATAL:")
main(res) ==
    IF res = "ok" THEN [code |-> 0, fatal |-> FALSE]
    ELSE IF res \in Panics \cup ConnPanics THEN [code |-> 101, fatal |-> FALSE]
    ELSE [code |-> 1, fatal |-> TRUE]

\* ------------------------------------------------------------- recv, 115-
\* recv returns, or panics: the stream is dropped with it
RecvEnd(res) ==
    /\ rres' = res
    /\ rpc' = "done"
    /\ rexit' = main(res)

\* the version is checked before the magic
CheckHeaderVersionFirst(h) ==
    IF h[4] # VERSION THEN "err_incompatible_version"
    ELSE IF Slice(h, 0, 3) # MAGIC THEN "err_bad_header"
    ELSE "ok"

\* main.rs 123-128: the magic is checked, then the version
CheckHeader(h) ==
    IF Slice(h, 0, 3) # MAGIC THEN "err_bad_header"
    ELSE IF h[4] # VERSION THEN "err_incompatible_version"
    ELSE "ok"

\* main.rs 121-128: read 4 bytes, check the magic, then the version
RecvReadHeader ==
    /\ rpc = "header"
    /\ \/ /\ Len(wire) >= 4
          /\ u32_buffer' = Slice(wire, 0, 4)
          /\ wire' = Slice(wire, 4, Len(wire))
          /\ consumed' = consumed + 4
          /\ IF CheckHeader(Slice(wire, 0, 4)) # "ok"
             THEN RecvEnd(CheckHeader(Slice(wire, 0, 4)))
             ELSE rpc' = "len" /\ UNCHANGED <<rres, rexit>>
       \/ \* read_exact: the stream ends before 4 bytes came
          /\ Len(wire) < 4 /\ wclosed
          /\ wire' = <<>>
          /\ consumed' = consumed + Len(wire)
          /\ RecvEnd("err_io")
          /\ UNCHANGED u32_buffer
    /\ UNCHANGED <<cvars, svars, wclosed, prefix, buffer_len, buffer, i, common_prefix,
                   files, common_prefix_len, fvars, sexit>>
    /\ UNCHANGED uvars

\* main.rs 130-134: read the total length, allocate the body (length - 8)
RecvReadLen ==
    /\ rpc = "len"
    /\ \/ /\ Len(wire) >= 4
          /\ u32_buffer' = Slice(wire, 0, 4)
          /\ wire' = Slice(wire, 4, Len(wire))
          /\ consumed' = consumed + 4
          /\ buffer_len' = from_le_bytes(Slice(wire, 0, 4))
          /\ IF buffer_len' < 8
             THEN \* buffer_len - 8 overflows: a panic, or a capacity overflow
                  RecvEnd("panic_sub_overflow")
             ELSE rpc' = "body" /\ UNCHANGED <<rres, rexit>>
       \/ /\ Len(wire) < 4 /\ wclosed
          /\ wire' = <<>>
          /\ consumed' = consumed + Len(wire)
          /\ RecvEnd("err_io")
          /\ UNCHANGED <<u32_buffer, buffer_len>>
    /\ UNCHANGED <<cvars, svars, wclosed, prefix, buffer, i, common_prefix,
                   files, common_prefix_len, fvars, sexit>>
    /\ UNCHANGED uvars

\* main.rs 135-143: read the body, start the running prefix
RecvReadBody ==
    /\ rpc = "body"
    /\ LET n == buffer_len - 8 IN
       \/ /\ Len(wire) >= n
          /\ buffer' = Slice(wire, 0, n)
          /\ wire' = Slice(wire, n, Len(wire))
          /\ consumed' = consumed + n
          /\ common_prefix' = IF prefix = "Keep" THEN SomePrefix(<<>>) ELSE NoPrefix
          /\ i' = 0
          /\ rpc' = "parse" /\ UNCHANGED <<rres, rexit>>
       \/ /\ Len(wire) < n /\ wclosed
          /\ wire' = <<>>
          /\ consumed' = consumed + Len(wire)
          /\ RecvEnd("err_io")
          /\ UNCHANGED <<buffer, common_prefix, i>>
    /\ UNCHANGED <<cvars, svars, wclosed, prefix, u32_buffer, buffer_len,
                   files, common_prefix_len, fvars, sexit>>
    /\ UNCHANGED uvars

\* main.rs 144-168: one record of the file list
RecvParseRecord ==
    /\ rpc = "parse"
    /\ i < Len(buffer)
    /\ IF i + 8 > Len(buffer) \/ i + 12 > Len(buffer)
       THEN \* &buffer[i..i + 8], &buffer[i..i + 4]: out of range
            RecvEnd("panic_slice") /\ UNCHANGED <<i, common_prefix, files>>
       ELSE LET flen == from_le_bytes(Slice(buffer, i, i + 8))
                name_len == from_le_bytes(Slice(buffer, i + 8, i + 12))
                j == i + 12
            IN  IF j + name_len > Len(buffer)
                THEN \* &buffer[i..i + name_len]: out of range
                     RecvEnd("panic_slice") /\ UNCHANGED <<i, common_prefix, files>>
                ELSE LET name == Slice(buffer, j, j + name_len) IN
                     /\ i' = j + name_len
                     /\ common_prefix' = NextCommonPrefix(common_prefix, name)
                     /\ IF from_utf8_ok(name)
                        THEN /\ files' = Append(files, [file_len |-> flen, name |-> name])
                             /\ UNCHANGED <<rpc, rres, rexit>>
                        ELSE RecvEnd("err_utf8") /\ UNCHANGED files
    /\ UNCHANGED <<cvars, svars, wvars, prefix, u32_buffer, buffer_len, buffer,
                   common_prefix_len, fvars, consumed, sexit>>
    /\ UNCHANGED uvars

\* main.rs 170-188: the end of the file list, the length to strip
RecvParseEnd ==
    /\ rpc = "parse"
    /\ i >= Len(buffer)
    /\ common_prefix_len' = CommonPrefixLen(common_prefix)
    /\ rpc' = "files"
    /\ UNCHANGED <<cvars, svars, wvars, prefix, u32_buffer, buffer_len, buffer, i,
                   common_prefix, files, fvars, consumed, rres, xvars>>
    /\ UNCHANGED uvars

\* main.rs 190: &name[common_prefix_len..]
DestPath(name, cpl) == Slice(name, cpl, Len(name))

\* the directory counts as new every time
InsertIsAlwaysNew(dirs, dir) == TRUE

\* main.rs 199: what created_dirs.insert(parent) returns: whether the set
\* did not hold the directory yet
Insert(dirs, dir) == dir \notin dirs

\* main.rs 189-205, 216: the next file: its parent directory, the file
\* itself; Ok(()) after the last one
RecvNextFile ==
    /\ rpc = "files"
    /\ IF fi = Len(files)
       THEN RecvEnd("ok") /\ UNCHANGED fvars
       ELSE LET f == files[fi + 1] IN
            IF common_prefix_len > Len(f.name)
            THEN \* &name[common_prefix_len..]: out of range
                 RecvEnd("panic_strip") /\ UNCHANGED fvars
            ELSE LET path == DestPath(f.name, common_prefix_len)
                     parent == PathParent(path)
                     mk == parent.has /\ Insert(created_dirs, parent.dir)
                     ops == IF mk
                            THEN Append(fsops, [op |-> "create_dir_all",
                                                path |-> parent.dir, data |-> <<>>])
                            ELSE fsops
                 IN  /\ created_dirs' = IF parent.has
                                        THEN created_dirs \cup {parent.dir}
                                        ELSE created_dirs
                     /\ \/ \* create_dir_all fails
                           /\ mk
                           /\ fsops' = ops
                           /\ RecvEnd("err_fs")
                           /\ UNCHANGED <<fi, file_len>>
                        \/ \* File::create fails
                           /\ fsops' = ops
                           /\ RecvEnd("err_fs")
                           /\ UNCHANGED <<fi, file_len>>
                        \/ /\ fsops' = Append(ops, [op |-> "create",
                                                    path |-> path, data |-> <<>>])
                           /\ file_len' = f.file_len
                           /\ IF f.file_len = 0
                              THEN fi' = fi + 1 /\ UNCHANGED <<rpc, rres, rexit>>
                              ELSE fi' = fi /\ rpc' = "data" /\ UNCHANGED <<rres, rexit>>
    /\ UNCHANGED <<cvars, svars, wvars, prefix, pvars, consumed, sexit>>
    /\ UNCHANGED uvars

\* every write starts at the beginning of the file
WriteToFileFromStart(ops, bytes) ==
    [ops EXCEPT ![Len(ops)].data = bytes]

\* the bytes written to the file created last
WriteToFile(ops, bytes) ==
    [ops EXCEPT ![Len(ops)].data = @ \o bytes]

\* the read asks for the whole buffer, whatever is left of the file
ReadLenWholeBuffer(remaining) == CHUNK_SIZE

\* main.rs 206: file_len.min(buffer.len())
ReadLen(remaining) == Min2(remaining, CHUNK_SIZE)

\* a read of 0 bytes taken for the end of the file, as send's loop does
RecvStreamEndedBreaks ==
    /\ wire = <<>> /\ wclosed
    /\ fi' = fi + 1 /\ rpc' = "files"
    /\ UNCHANGED <<wire, consumed, file_len, created_dirs, fsops, rres, rexit>>

\* main.rs 207-210: read returns 0, the stream has ended
RecvStreamEnded ==
    /\ wire = <<>> /\ wclosed
    /\ RecvEnd("err_truncated")
    /\ UNCHANGED <<wire, consumed, fvars>>

\* main.rs 205-213: one read of at most min(file_len, CHUNK_SIZE) bytes,
\* written to the file.  The read returns what has arrived, up to len bytes:
\* the sender writes runs of any length from 1 byte on, so every sequence
\* of read sizes happens this way.
RecvReadChunk ==
    /\ rpc = "data"
    /\ file_len # 0
    /\ LET len == ReadLen(file_len) IN
       \/ RecvStreamEnded
       \/ \E n \in {Min2(len, Len(wire))} \ {0} :
            /\ wire' = Slice(wire, n, Len(wire))
            /\ consumed' = consumed + n
            /\ file_len' = file_len - n
            /\ created_dirs' = created_dirs
            /\ \/ \* write_all fails
                  /\ RecvEnd("err_fs")
                  /\ UNCHANGED <<fi, fsops>>
               \/ /\ fsops' = WriteToFile(fsops, Slice(wire, 0, n))
                  /\ IF file_len' = 0
                     THEN fi' = fi + 1 /\ rpc' = "files" /\ UNCHANGED <<rres, rexit>>
                     ELSE UNCHANGED <<fi, rpc, rres, rexit>>
    /\ UNCHANGED <<cvars, svars, wclosed, prefix, pvars, sexit>>
    /\ UNCHANGED uvars

\* ---------------------------------------------------------- send, 42-92
\* send returns: the stream is dropped with it
SendEnd(res) ==
    /\ sres' = res
    /\ spc' = "done"
    /\ wclosed' = TRUE
    /\ sexit' = main(res)

\* stream.write_all(bytes): the bytes are in flight; once the receiver is
\* gone they are lost, and the call may or may not report it
WriteAll(bytes, ok) ==
    IF rres = "running"
    THEN ok /\ wire' = wire \o bytes
    ELSE wire' = wire

\* main.rs 44-64: stat every file, build the file list buffer
SendBuildManifest ==
    /\ spc = "build"
    /\ \/ \* fs::metadata fails
          /\ sfiles # <<>>
          /\ SendEnd("err_fs")
          /\ UNCHANGED <<sbuffer, wire>>
       \/ /\ sbuffer' = EncodeManifest(sfiles)
          /\ spc' = "connect"
          /\ UNCHANGED <<sres, sexit, wvars>>
    /\ UNCHANGED <<sfiles, disk, si, soff, readFailed, resized, mut, rvars, rexit, cvars>>
    /\ UNCHANGED uvars

\* main.rs 67-72: connect (the receiver has accepted), write the file list
SendWriteManifest ==
    /\ spc = "connect"
    /\ \/ \E ok \in BOOLEAN :
            /\ WriteAll(sbuffer, ok)
            /\ IF ok
               THEN spc' = "open" /\ si' = 0 /\ UNCHANGED <<sres, sexit, wclosed>>
               ELSE SendEnd("err_io") /\ UNCHANGED si
       \/ \* TcpStream::connect fails
          /\ SendEnd("err_io") /\ UNCHANGED <<wire, si>>
    /\ UNCHANGED <<sfiles, disk, sbuffer, soff, readFailed, resized, mut, rvars, rexit, cvars>>
    /\ UNCHANGED uvars

\* main.rs 74-82, 91: open the next file; Ok(()) after the last one
SendOpen ==
    /\ spc = "open"
    /\ IF si = Len(sfiles)
       THEN SendEnd("ok") /\ UNCHANGED soff
       ELSE \/ soff' = 0 /\ spc' = "read" /\ UNCHANGED <<sres, sexit, wclosed>>
            \/ \* File::open fails
               SendEnd("err_fs") /\ UNCHANGED soff
    /\ UNCHANGED <<sfiles, disk, sbuffer, si, readFailed, resized, mut, wire, rvars, rexit, cvars>>
    /\ UNCHANGED uvars

\* the environment of the sender fails it at most once in a session: a read
\* error, a file that changes its size, or the end of the process
Faulted == readFailed \/ resized \/ sres = "killed"

\* main.rs 83-88: one read of the open file and the write of what was
\* read.  The loop runs while file.read is Ok(n): at Ok(0) it breaks, and at
\* Err(_) the pattern does not match, so it ends as well and send goes on
\* to the next file.
SendReadChunk ==
    /\ spc = "read"
    /\ LET rest == disk[si + 1] - soff IN
       \/ \* Ok(0): the end of the file
          /\ rest <= 0
          /\ si' = si + 1 /\ spc' = "open"
          /\ UNCHANGED <<soff, sres, sexit, readFailed, wvars>>
       \/ \* Err(_)
          /\ ~Faulted
          /\ readFailed' = TRUE
          /\ si' = si + 1 /\ spc' = "open"
          /\ UNCHANGED <<soff, sres, sexit, wvars>>
       \/ \* Ok(n)
          \E n \in 1..Min2(rest, CHUNK_SIZE), ok \in BOOLEAN :
            /\ WriteAll(Slice(FileData(si + 1, disk[si + 1]), soff, soff + n), ok)
            /\ readFailed' = readFailed
            /\ IF ok
               THEN soff' = soff + n /\ UNCHANGED <<si, spc, sres, sexit, wclosed>>
               ELSE SendEnd("err_io") /\ UNCHANGED <<si, soff>>
    /\ UNCHANGED <<sfiles, disk, sbuffer, resized, mut, rvars, rexit, cvars>>
    /\ UNCHANGED uvars

\* the environment: a source file loses its last byte, or gains one, after
\* its length went into the file list (once).  send sees the size of a file
\* only through the reads of 83, so the change is taken while the file is
\* the one being read.
FileResize ==
    /\ spc = "read"
    /\ ~Faulted
    /\ \E n \in 0..MaxFileLen :
         /\ n \in {disk[si + 1] - 1, disk[si + 1] + 1}
         /\ disk' = [disk EXCEPT ![si + 1] = n]
    /\ resized' = TRUE
    /\ UNCHANGED <<sfiles, spc, sbuffer, si, soff, sres, readFailed, mut, wvars, rvars, xvars, cvars>>
    /\ UNCHANGED uvars

\* the environment: the sending process is killed, or the connection is
\* lost; main never returns
SendKilled ==
    /\ spc \in {"open", "read"}
    /\ ~Faulted
    /\ spc' = "done"
    /\ sres' = "killed"
    /\ wclosed' = TRUE
    /\ UNCHANGED <<sfiles, disk, sbuffer, si, soff, readFailed, resized, mut,
                   wire, sexit, rvars, rexit, cvars>>
    /\ UNCHANGED uvars

\* ------------------------------------------------ automatic discovery, 219-
PORT == 8370
SIGNALING_PORT == 8369
CLIENT_BROADCAST_PORT == 38369

\* most datagrams one survey broadcasts in the model (the loop of the source
\* is unbounded)
MaxBroadcasts == 2
\* the senders that look for the receiver
NSenders == 2

RECURSIVE OrNot(_, _, _)
\* o | !m on the low n bits
OrNot(o, m, n) ==
    IF n = 0 THEN 0
    ELSE (IF o % 2 = 1 \/ m % 2 = 0 THEN 1 ELSE 0) + 2 * OrNot(o \div 2, m \div 2, n - 1)

\* an IpAddr is [fam, octets], a SocketAddr [fam, octets, port]
SocketAddr(ip, port) == [fam |-> ip.fam, octets |-> ip.octets, port |-> port]

\* no address: what stands for the panic of make_broadcast_addr and for the
\* Err of deserialize_socket_addr
NoSocketAddr == [fam |-> 0, octets |-> <<>>, port |-> 0]

\* the mask itself is or-ed in, not its complement
make_broadcast_addr_or_mask(a, subnet_mask) ==
    IF a.fam = subnet_mask.fam
    THEN [fam |-> a.fam,
          octets |-> [k \in 1..Len(a.octets) |->
                         OrNot(a.octets[k], 255 - subnet_mask.octets[k], 8)],
          port |-> a.port]
    ELSE NoSocketAddr

\* main.rs 223-241; NoSocketAddr for the last arm, which panics
make_broadcast_addr(a, subnet_mask) ==
    IF a.fam = subnet_mask.fam
    THEN [fam |-> a.fam,
          octets |-> [k \in 1..Len(a.octets) |->
                         OrNot(a.octets[k], subnet_mask.octets[k], 8)],
          port |-> a.port]
    ELSE NoSocketAddr

Zeros(n) == [k \in 1..n |-> 0]

\* the port goes out with to_le_bytes
serialize_socket_addr_le(a) ==
    IF a.fam = 4
    THEN <<4>> \o a.octets \o <<a.port % 256, a.port \div 256>> \o Zeros(13)
    ELSE <<6>> \o a.octets \o <<a.port % 256, a.port \div 256>> \o Zeros(1)

\* main.rs 243-258
serialize_socket_addr(a) ==
    IF a.fam = 4
    THEN <<4>> \o a.octets \o <<a.port \div 256, a.port % 256>> \o Zeros(13)
    ELSE <<6>> \o a.octets \o <<a.port \div 256, a.port % 256>> \o Zeros(1)

\* main.rs 260-280; NoSocketAddr for the last arm, which is Err
deserialize_socket_addr(b) ==
    IF b[1] = 4
    THEN [fam |-> 4, octets |-> Slice(b, 1, 5), port |-> b[6] * 256 + b[7]]
    ELSE IF b[1] = 6
    THEN [fam |-> 6, octets |-> Slice(b, 1, 17), port |-> b[18] * 256 + b[19]]
    ELSE NoSocketAddr

\* the interfaces of the receiver's host: 192.168.1.5/24, fe80::1/64, and
\* an IPv4 address that comes with an IPv6 mask
V4Ip == [fam |-> 4, octets |-> <<192, 168, 1, 5>>]
V4Mask == [fam |-> 4, octets |-> <<255, 255, 255, 0>>]
V6Ip == [fam |-> 6, octets |-> <<254, 128>> \o Zeros(13) \o <<1>>]
V6Mask == [fam |-> 6, octets |-> [k \in 1..16 |-> IF k <= 8 THEN 255 ELSE 0]]
Interfaces ==
    {[ip |-> V4Ip, subnet_mask |-> V4Mask], [ip |-> V6Ip, subnet_mask |-> V6Mask],
     [ip |-> V4Ip, subnet_mask |-> V6Mask]}

NoAddr == [ip |-> [fam |-> 0, octets |-> <<>>], subnet_mask |-> [fam |-> 0, octets |-> <<>>]]
NoListener == [state |-> "none", nonblocking |-> FALSE]

\* main.rs 104-110: the survey returned Err(e): back to a blocking listener
\* and a plain accept
Fallback(why) ==
    /\ survey' = why
    /\ \/ /\ listener' = [listener EXCEPT !.nonblocking = FALSE]
          /\ rpc' = "fallback"
          /\ UNCHANGED <<rres, rexit>>
       \/ \* set_nonblocking(false) fails
          /\ RecvEnd("panic_set_blocking")
          /\ listener' = [listener EXCEPT !.state = "dropped"]

\* main.rs 95: the first address of the host
RecvGetAddress ==
    /\ rpc = "start"
    /\ IF ifaddrs = <<>>
       THEN \* Err(_), or an empty list
            RecvEnd("panic_no_address") /\ UNCHANGED addr
       ELSE addr' = ifaddrs[1] /\ rpc' = "bind" /\ UNCHANGED <<rres, rexit>>
    /\ UNCHANGED <<svars, wvars, prefix, pvars, fvars, consumed, sexit,
                   ifaddrs, listener, backlog, accepted, survey, broadcasts, snd>>
    /\ UNCHANGED uvars

\* main.rs 101
RecvBind ==
    /\ rpc = "bind"
    /\ \/ /\ listener' = [state |-> "open", nonblocking |-> FALSE]
          /\ rpc' = "survey"
          /\ UNCHANGED <<rres, rexit>>
       \/ \* TcpListener::bind fails
          /\ RecvEnd("err_io")
          /\ UNCHANGED listener
    /\ UNCHANGED <<svars, wvars, prefix, pvars, fvars, consumed, sexit,
                   ifaddrs, addr, backlog, accepted, survey, broadcasts, snd>>
    /\ UNCHANGED uvars

\* main.rs 285-290: the listener's address, its broadcast address, the
\* non-blocking listener, the UDP socket
SurveySetup ==
    /\ rpc = "survey"
    /\ \/ Fallback("err_local_addr")
       \/ /\ make_broadcast_addr(SocketAddr(addr.ip, PORT), addr.subnet_mask) = NoSocketAddr
          /\ RecvEnd("panic_mask_version")
          /\ listener' = [listener EXCEPT !.state = "dropped"]
          /\ survey' = "panic_mask_version"
       \/ /\ make_broadcast_addr(SocketAddr(addr.ip, PORT), addr.subnet_mask) # NoSocketAddr
          /\ \/ Fallback("err_set_nonblocking")
             \/ Fallback("err_udp_bind")
             \/ /\ listener' = [listener EXCEPT !.nonblocking = TRUE]
                /\ survey' = "running"
                /\ rpc' = "poll"
                /\ UNCHANGED <<rres, rexit>>
    /\ UNCHANGED <<svars, wvars, prefix, pvars, fvars, consumed, sexit,
                   ifaddrs, addr, backlog, accepted, broadcasts, snd>>
    /\ UNCHANGED uvars

\* the stream is kept and the listener goes on accepting
AcceptKeepsListening(by) ==
    /\ backlog # <<>>
    /\ accepted' = Append(accepted, [who |-> Head(backlog), by |-> by])
    /\ backlog' = Tail(backlog)
    /\ UNCHANGED <<listener, rpc, rres, rexit>>

\* main.rs 295, 110: accept gives the oldest connection made; the stream
\* goes to the session and the listener is dropped (113)
Accept(by) ==
    /\ backlog # <<>>
    /\ accepted' = Append(accepted, [who |-> Head(backlog), by |-> by])
    /\ backlog' = Tail(backlog)
    /\ listener' = [listener EXCEPT !.state = "dropped"]
    /\ rpc' = "header"
    /\ UNCHANGED <<rres, rexit>>

NoDatagram == [to |-> NoSocketAddr, data |-> <<>>]

\* main.rs 285-287, 297: the serialized address of the listener, for the
\* signaling port of its subnet's broadcast address
Signal(listener_addr, subnet_mask) ==
    [to   |-> [make_broadcast_addr(listener_addr, subnet_mask)
                  EXCEPT !.port = SIGNALING_PORT],
     data |-> serialize_socket_addr(listener_addr)]

\* the datagram goes to the address of the listener itself
BroadcastToListener(to) ==
    /\ broadcasts' = broadcasts + 1
    /\ datagram' = [Signal(SocketAddr(addr.ip, PORT), addr.subnet_mask)
                       EXCEPT !.to = SocketAddr(addr.ip, SIGNALING_PORT)]
    /\ snd' = snd

\* the datagram goes to CLIENT_BROADCAST_PORT, where no sender waits
DeliveredOnClientPort(to) == snd

\* main.rs 297, 308-309: the senders once the datagram has reached those of
\* to that wait for one on the signaling port
Delivered(to) ==
    [s \in DOMAIN snd |->
        IF s \in to /\ snd[s].pc = "discover" /\ snd[s].inbox = <<>>
        THEN [snd[s] EXCEPT !.inbox =
                 serialize_socket_addr(SocketAddr(addr.ip, PORT))]
        ELSE snd[s]]

\* main.rs 297: the datagram reaches the senders that wait for one, or is
\* lost on its way to some
Broadcast(to) ==
    /\ broadcasts' = broadcasts + 1
    /\ datagram' = Signal(SocketAddr(addr.ip, PORT), addr.subnet_mask)
    /\ snd' = Delivered(to)

\* main.rs 292-302: one poll of the survey
SurveyPoll ==
    /\ rpc = "poll"
    /\ \/ \* Ok((s, _)) => break Ok(s)
          /\ Accept("survey")
          /\ survey' = "accepted"
          /\ UNCHANGED <<broadcasts, snd, datagram>>
       \/ \* WouldBlock: broadcast, then sleep
          /\ backlog = <<>>
          /\ broadcasts < MaxBroadcasts
          /\ \/ /\ \E to \in SUBSET (DOMAIN snd) : Broadcast(to)
                /\ rpc' = "sleep"
                /\ UNCHANGED <<rres, rexit, listener, backlog, accepted, survey>>
             \/ \* send_to fails
                /\ Fallback("err_send_to")
                /\ UNCHANGED <<backlog, accepted, broadcasts, snd, datagram>>
       \/ \* any other error of accept
          /\ Fallback("err_accept")
          /\ UNCHANGED <<backlog, accepted, broadcasts, snd, datagram>>
    /\ UNCHANGED <<svars, wvars, prefix, pvars, fvars, consumed, sexit, ifaddrs, addr>>
    /\ UNCHANGED call

\* main.rs 298-299: thread::sleep(SIGNAL_DELAY); continue
SurveySleep ==
    /\ rpc = "sleep"
    /\ rpc' = "poll"
    /\ UNCHANGED <<svars, wvars, prefix, pvars, fvars, consumed, rres, xvars, cvars>>
    /\ UNCHANGED uvars

\* main.rs 110: the blocking accept of the fallback
FallbackAccept ==
    /\ rpc = "fallback"
    /\ \/ Accept("fallback")
       \/ \* accept fails
          /\ RecvEnd("panic_no_client")
          /\ listener' = [listener EXCEPT !.state = "dropped"]
          /\ UNCHANGED <<backlog, accepted>>
    /\ UNCHANGED <<svars, wvars, prefix, pvars, fvars, consumed, sexit,
                   ifaddrs, addr, survey, broadcasts, snd>>
    /\ UNCHANGED uvars

\* a sender ends: its result and main's exit
SndEnd(s, res) ==
    snd' = [snd EXCEPT ![s].pc = "done", ![s].res = res, ![s].exit = main(res)]

ConnFrame ==
    UNCHANGED <<svars, wvars, rvars, xvars, ifaddrs, addr, listener, accepted,
                survey, broadcasts, uvars>>

\* args.rs 82-90, main.rs 318-324: the <IP> argument: auto, an address, or
\* something that is no address
SndStart(s) ==
    /\ snd[s].pc = "start"
    /\ \/ snd[s].ip = "auto"
          /\ \/ snd' = [snd EXCEPT ![s].pc = "discover"]
             \/ \* UdpSocket::bind fails
                SndEnd(s, "err_io")
       \/ snd[s].ip = "direct"
          \* the address the receiver's host shows, with the fixed port
          /\ snd' = [snd EXCEPT ![s].pc = "dial",
                                ![s].target =
                                    IF ifaddrs = <<>> THEN SocketAddr(V4Ip, PORT)
                                    ELSE SocketAddr(ifaddrs[1].ip, PORT)]
       \/ snd[s].ip = "invalid" /\ SndEnd(s, "panic_invalid_ip")
    /\ UNCHANGED backlog
    /\ ConnFrame

\* main.rs 309-310: one datagram, decoded
SndDiscover(s) ==
    /\ snd[s].pc = "discover"
    /\ \/ /\ snd[s].inbox # <<>>
          /\ LET a == deserialize_socket_addr(snd[s].inbox) IN
             IF a = NoSocketAddr THEN SndEnd(s, "err_invalid_socket_addr")
             ELSE snd' = [snd EXCEPT ![s].pc = "dial", ![s].target = a]
       \/ \* recv_from fails
          SndEnd(s, "err_io")
    /\ UNCHANGED backlog
    /\ ConnFrame

\* main.rs 67: TcpStream::connect
SndDial(s) ==
    /\ snd[s].pc = "dial"
    /\ \/ /\ listener.state = "open"
          /\ snd[s].target = SocketAddr(addr.ip, PORT)
          /\ backlog' = Append(backlog, s)
          /\ snd' = [snd EXCEPT ![s].pc = "connected"]
       \/ \* nobody listens there, or anything else fails
          /\ SndEnd(s, "err_io")
          /\ UNCHANGED backlog
    /\ ConnFrame

\* the environment: a datagram of another program arrives on the signaling
\* port
StrayDatagram(s) ==
    /\ snd[s].pc = "discover"
    /\ snd[s].inbox = <<>>
    /\ snd' = [snd EXCEPT ![s].inbox = Zeros(20)]
    /\ UNCHANGED backlog
    /\ ConnFrame

\* no call of an address function on its own
NoCall ==
    [pc |-> "none", addr |-> NoSocketAddr, subnet_mask |-> NoAddr.subnet_mask,
     buffer |-> <<>>, result |-> NoSocketAddr]

\* ---------------------------------------------------------- specifications
\* the connection is made: one stream, accepted by the survey
Established ==
    /\ ifaddrs = <<[ip |-> V4Ip, subnet_mask |-> V4Mask]>>
    /\ addr = ifaddrs[1]
    /\ listener = [state |-> "dropped", nonblocking |-> TRUE]
    /\ backlog = <<>>
    /\ accepted = <<[who |-> 1, by |-> "survey"]>>
    /\ survey = "accepted"
    /\ broadcasts = 1
    /\ datagram = Signal(SocketAddr(addr.ip, PORT), addr.subnet_mask)
    /\ snd = <<>>

RecvLocals ==
    /\ prefix \in {"Keep", "Strip"}
    /\ u32_buffer = <<0, 0, 0, 0>>
    /\ buffer_len = 0
    /\ buffer = <<>>
    /\ i = 0
    /\ common_prefix = NoPrefix
    /\ files = <<>>
    /\ common_prefix_len = 0
    /\ fi = 0
    /\ file_len = 0
    /\ created_dirs = {}
    /\ fsops = <<>>
    /\ consumed = 0
    /\ rres = "running"
    /\ rexit = NoExit

RecvInit ==
    /\ rpc = "header"
    /\ RecvLocals
    /\ Established
    /\ call = NoCall

\* One session: send and recv of this program over one stream.
Init ==
    /\ sfiles \in SendLists
    /\ disk = [k \in 1..Len(sfiles) |-> sfiles[k].len]
    /\ spc = "build"
    /\ sbuffer = <<>>
    /\ si = 0
    /\ soff = 0
    /\ sres = "running"
    /\ readFailed = FALSE
    /\ resized = FALSE
    /\ mut = [pos |-> 0, val |-> 0]
    /\ wire = <<>>
    /\ wclosed = FALSE
    /\ sexit = NoExit
    /\ RecvInit

Recv ==
    \/ RecvReadHeader
    \/ RecvReadLen
    \/ RecvReadBody
    \/ RecvParseRecord
    \/ RecvParseEnd
    \/ RecvNextFile
    \/ RecvReadChunk

Send ==
    \/ SendBuildManifest
    \/ SendWriteManifest
    \/ SendOpen
    \/ SendReadChunk
    \/ FileResize
    \/ SendKilled

Next == Send \/ Recv

Spec == Init /\ [][Next]_vars

\* ----------------------------------------------- the file list on its own
\* source paths whose file lists recv parses: "a", "a/x", "b/y", "ab/c",
\* "ab/d", "a/b/c", "a/b/d", "a\x"
ManifestNames ==
    {<<97>>, <<97, 47, 120>>, <<98, 47, 121>>, <<97, 98, 47, 99>>,
     <<97, 98, 47, 100>>, <<97, 47, 98, 47, 99>>, <<97, 47, 98, 47, 100>>,
     <<97, 92, 120>>}

RECURSIVE Bodies(_, _)
\* the bodies that follow the file list: file k, k + 1, ... back to back
Bodies(fs, k) ==
    IF k > Len(fs) THEN <<>> ELSE FileData(k, fs[k].len) \o Bodies(fs, k + 1)

\* a peer that is not this program: no send runs
PeerInit ==
    /\ disk = [k \in 1..Len(sfiles) |-> sfiles[k].len]
    /\ spc = "peer"
    /\ si = 0
    /\ soff = 0
    /\ sres = "peer"
    /\ readFailed = FALSE
    /\ resized = FALSE
    /\ wclosed = TRUE
    /\ sexit = NoExit

\* recv on a stream that holds send's file list for some files, the bodies
\* and nothing more.
InitManifest ==
    /\ sfiles \in FileLists(ManifestNames, 0..MaxFileLen)
    /\ mut = [pos |-> 0, val |-> 0]
    /\ PeerInit
    /\ sbuffer = EncodeManifest(sfiles)
    /\ wire = sbuffer \o Bodies(sfiles, 1)
    /\ RecvInit

SpecManifest == InitManifest /\ [][Recv]_vars

\* the bytes a foreign peer puts in place of one byte of a file list
MutVals == {0, 9, 17, 21, 255}

Mutate(bytes, m) ==
    IF m.pos = 0 THEN bytes ELSE [bytes EXCEPT ![m.pos] = m.val]

\* the file list of a peer built for the protocol version before
OlderManifest(fs) == [EncodeManifest(fs) EXCEPT ![4] = VERSION - 1]

\* the file lists a foreign peer starts from: "a", "ab/c", one byte each
ForeignLists == FileLists({<<97>>, <<97, 98, 47, 99>>}, {1})

\* recv on a stream that holds a file list with one byte changed (a wrong
\* magic or version, a wrong length, a wrong name byte), the bodies and
\* nothing more.
InitForeign ==
    /\ sfiles \in ForeignLists
    /\ PeerInit
    /\ sbuffer \in {EncodeManifest(sfiles), OlderManifest(sfiles)}
    /\ mut \in {[pos |-> 0, val |-> 0]} \cup
               {m \in [pos : 1..Len(sbuffer), val : MutVals] : sbuffer[m.pos] # m.val}
    /\ wire = Mutate(sbuffer, mut) \o Bodies(sfiles, 1)
    /\ RecvInit

SpecForeign == InitForeign /\ [][Recv]_vars

\* ------------------------------------------------- connection establishment
\* The receiver from its start to the stream it hands to the session, and
\* NSenders senders that look for it, each with its <IP> argument.
InitConn ==
    /\ sfiles = <<>>
    /\ mut = [pos |-> 0, val |-> 0]
    /\ PeerInit
    /\ sbuffer = <<>>
    /\ wire = <<>>
    /\ rpc = "start"
    /\ RecvLocals
    /\ ifaddrs \in {<<>>} \cup {<<a>> : a \in Interfaces}
    /\ addr = NoAddr
    /\ listener = NoListener
    /\ backlog = <<>>
    /\ accepted = <<>>
    /\ survey = "none"
    /\ broadcasts = 0
    /\ datagram = NoDatagram
    /\ call = NoCall
    /\ snd \in [1..NSenders ->
                 [ip : {"auto", "direct", "invalid"}, pc : {"start"}, inbox : {<<>>},
                  target : {NoSocketAddr}, res : {"running"},
                  exit : {NoExit}]]

Establish ==
    \/ RecvGetAddress
    \/ RecvBind
    \/ SurveySetup
    \/ SurveyPoll
    \/ SurveySleep
    \/ FallbackAccept

Senders ==
    \/ \E s \in DOMAIN snd : SndStart(s)
    \/ \E s \in DOMAIN snd : SndDiscover(s)
    \/ \E s \in DOMAIN snd : SndDial(s)
    \/ \E s \in DOMAIN snd : StrayDatagram(s)

NextConn == Establish \/ Senders

SpecConn == InitConn /\ [][NextConn]_vars

\* ------------------------------------------------------ automatic mode
\* One sender in automatic mode and a receiver whose survey fails at no
\* step and whose loop goes on for as long as nobody connects (the polls
\* after the MaxBroadcasts-th are no longer counted).  The sender may still
\* fail to bind, to receive or to decode; its dial, once made, arrives.
InitLive ==
    /\ sfiles = <<>>
    /\ mut = [pos |-> 0, val |-> 0]
    /\ PeerInit
    /\ sbuffer = <<>>
    /\ wire = <<>>
    /\ rpc = "start"
    /\ RecvLocals
    /\ ifaddrs \in {<<[ip |-> V4Ip, subnet_mask |-> V4Mask]>>,
                    <<[ip |-> V6Ip, subnet_mask |-> V6Mask]>>}
    /\ addr = NoAddr
    /\ listener = NoListener
    /\ backlog = <<>>
    /\ accepted = <<>>
    /\ survey = "none"
    /\ broadcasts = 0
    /\ datagram = NoDatagram
    /\ call = NoCall
    /\ snd = <<[ip |-> "auto", pc |-> "start", inbox |-> <<>>,
                target |-> NoSocketAddr, res |-> "running", exit |-> NoExit]>>

\* no step of the receiver has failed
Healthy == rres = "running" /\ survey \in {"none", "running", "accepted"}

\* main.rs 291-299: a poll after the MaxBroadcasts-th broadcast: the same
\* datagram, not counted
SurveyPollOn ==
    /\ rpc = "poll"
    /\ backlog = <<>>
    /\ broadcasts = MaxBroadcasts
    /\ \E to \in SUBSET (DOMAIN snd) : snd' = Delivered(to)
    /\ datagram' = Signal(SocketAddr(addr.ip, PORT), addr.subnet_mask)
    /\ rpc' = "sleep"
    /\ UNCHANGED <<svars, wvars, prefix, pvars, fvars, consumed, rres, xvars,
                   ifaddrs, addr, listener, backlog, accepted, survey, broadcasts, call>>

\* main.rs 297, 309: a datagram of the survey reaches the sender
Reaches(s) ==
    /\ SurveyPoll \/ SurveyPollOn
    /\ snd[s].inbox = <<>>
    /\ snd'[s].inbox # <<>>
    /\ Healthy'

\* main.rs 310: the sender decodes the datagram it has
Decodes(s) == SndDiscover(s) /\ snd[s].inbox # <<>>

\* main.rs 67: the sender's connect reaches the listener
Dials(s) == SndDial(s) /\ snd'[s].pc = "connected"

NextLive ==
    \/ RecvGetAddress /\ Healthy'
    \/ RecvBind /\ Healthy'
    \/ SurveySetup /\ Healthy'
    \/ SurveyPoll /\ Healthy'
    \/ SurveyPollOn
    \/ SurveySleep
    \/ SndStart(1)
    \/ SndDiscover(1)
    \/ Dials(1)
    \/ StrayDatagram(1)

\* the receiver goes on, the sender acts on what it has, and of the
\* datagrams sent again and again one reaches the sender
SpecLive ==
    /\ InitLive
    /\ [][NextLive]_vars
    /\ WF_vars(RecvGetAddress /\ Healthy')
    /\ WF_vars(RecvBind /\ Healthy')
    /\ WF_vars(SurveySetup /\ Healthy')
    /\ WF_vars(SurveyPoll /\ Healthy')
    /\ WF_vars(SurveyPollOn)
    /\ WF_vars(SurveySleep)
    /\ SF_vars(Reaches(1))
    /\ WF_vars(Decodes(1))
    /\ WF_vars(Dials(1))

\* ------------------------------------------------ the address functions
\* The functions of 223-280 on their own, each called once on arguments
\* that the sessions above do not reach: other addresses, masks that do not
\* end at an octet, other ports, and the datagrams of other programs.
CallIps ==
    {V4Ip, V6Ip,
     [fam |-> 4, octets |-> <<10, 0, 0, 1>>],
     [fam |-> 4, octets |-> <<172, 16, 37, 200>>],
     [fam |-> 4, octets |-> <<0, 0, 0, 0>>],
     [fam |-> 4, octets |-> <<255, 255, 255, 255>>],
     [fam |-> 6, octets |-> <<32, 1, 13, 184>> \o Zeros(7) \o <<4, 6, 0, 255, 66>>],
     [fam |-> 6, octets |-> Zeros(16)]}

CallMasks ==
    {V4Mask, V6Mask,
     [fam |-> 4, octets |-> <<255, 255, 254, 0>>],
     [fam |-> 4, octets |-> <<255, 255, 255, 252>>],
     [fam |-> 4, octets |-> <<0, 0, 0, 0>>],
     [fam |-> 4, octets |-> <<255, 255, 255, 255>>],
     [fam |-> 6, octets |-> [k \in 1..16 |-> IF k <= 8 THEN 255 ELSE IF k = 9 THEN 240 ELSE 0]]}

CallPorts == {0, 1, 255, 256, PORT, SIGNALING_PORT, 65535}

\* what arrives on the signaling port from elsewhere: byte 0 is 0, 5 or
\* 255, or the datagram is one of this program
CallDatagrams ==
    {Zeros(20), <<5>> \o Zeros(19),
     <<255, 192, 168, 1, 5, 32, 178>> \o Zeros(13),
     <<4, 192, 168, 1, 5, 32, 178>> \o Zeros(13),
     <<6>> \o V6Ip.octets \o <<32, 178, 0>>}

InitCall ==
    /\ sfiles = <<>>
    /\ mut = [pos |-> 0, val |-> 0]
    /\ PeerInit
    /\ sbuffer = <<>>
    /\ wire = <<>>
    /\ rpc = "none"
    /\ RecvLocals
    /\ prefix = "Keep"
    /\ ifaddrs = <<>>
    /\ addr = NoAddr
    /\ listener = NoListener
    /\ backlog = <<>>
    /\ accepted = <<>>
    /\ survey = "none"
    /\ broadcasts = 0
    /\ snd = <<>>
    /\ datagram = NoDatagram
    /\ call \in [pc : {"start"},
                 addr : {SocketAddr(ip, port) : ip \in CallIps, port \in CallPorts},
                 subnet_mask : CallMasks, buffer : {<<>>}, result : {NoSocketAddr}]

CallFrame == UNCHANGED <<svars, wvars, rvars, xvars, cvars, datagram>>

\* main.rs 286: serialize_socket_addr(listener_addr)
CallSerialize ==
    /\ call.pc = "start"
    /\ call' = [call EXCEPT !.pc = "serialized",
                            !.buffer = serialize_socket_addr(call.addr)]
    /\ CallFrame

\* main.rs 309: recv_from fills buf with a datagram of another program
CallReceive ==
    /\ call.pc = "start"
    /\ \E b \in CallDatagrams : call' = [call EXCEPT !.pc = "received", !.buffer = b]
    /\ CallFrame

\* main.rs 310: deserialize_socket_addr(buf), of a datagram of this program
\* or of another
CallDeserialize ==
    /\ call.pc \in {"serialized", "received"}
    /\ call' = [call EXCEPT !.pc = IF call.pc = "serialized" THEN "deserialized"
                                   ELSE "decoded",
                            !.result = deserialize_socket_addr(call.buffer)]
    /\ CallFrame

\* main.rs 287: make_broadcast_addr(listener_addr, subnet_mask)
CallMakeBroadcast ==
    /\ call.pc = "start"
    /\ call' = [call EXCEPT !.pc = "broadcast",
                            !.result = make_broadcast_addr(call.addr, call.subnet_mask)]
    /\ CallFrame

NextCall ==
    \/ CallSerialize
    \/ CallReceive
    \/ CallDeserialize
    \/ CallMakeBroadcast

SpecCall == InitCall /\ [][NextCall]_vars

\* -------------------------------------------------------------- the claims
\* the file list as send transmits it: (length, path as transmitted)
Entries(fs) ==
    [k \in 1..Len(fs) |-> [file_len |-> fs[k].len, name |-> MapSeparators(fs[k].name)]]

\* the files recv has created so far, in order
Created == SelectSeq(fsops, LAMBDA o : o.op = "create")

RECURSIVE SumRecordLens(_)
SumRecordLens(fs) ==
    IF fs = <<>> THEN 0 ELSE 12 + Len(fs[1].name) + SumRecordLens(Tail(fs))

SharedPrefix(n) ==
    \A k \in 1..Len(files) :
        /\ n <= Len(files[k].name)
        /\ Slice(files[k].name, 0, n) = Slice(files[1].name, 0, n)

C2_StrippedPrefix ==
    (prefix = "Strip" /\ rpc = "files" /\ files # <<>>) =>
        /\ SharedPrefix(common_prefix_len)
        /\ common_prefix_len = 0
             \/ files[1].name[common_prefix_len] \in PATH_SEPARATORS
        /\ \A n \in (common_prefix_len + 1)..Len(files[1].name) :
             ~(SharedPrefix(n) /\ files[1].name[n] \in PATH_SEPARATORS)

\* C3: once a read of a source file has failed, send has ended with an
\* error: it neither goes on to the next file nor returns Ok.
C3_ReadErrorAborts ==
    readFailed => (spc = "done" /\ sres = "err_fs")

\* C4: when the stream has ended and bytes of the current file are still
\* due, the step recv takes is the truncated-transfer error, with no file
\* or directory created in it; and after that error recv does nothing more
\* and never returns Ok.
C4_TruncationIsFatal ==
    [][ /\ (rpc = "data" /\ file_len # 0 /\ wire = <<>> /\ wclosed)
            => (rres' = "err_truncated" /\ rpc' = "done" /\ rexit'.code = 1
                /\ fsops' = fsops /\ fi' = fi)
        /\ (rres = "err_truncated")
            => (rres' = "err_truncated" /\ fsops' = fsops /\ fi' = fi) ]_vars

\* the stream was cut strictly inside the body of the second file
C4_Witness ==
    /\ rres = "err_truncated"
    /\ sres = "killed"
    /\ fi = 1
    /\ Len(Created) = 2
    /\ Len(Created[2].data) = 1
    /\ files[2].file_len = 2

\* C5: recv's parse of the file list that send's layout gives for N files
\* (N = 0, 1, more) yields the same (length, path as transmitted) pairs in
\* the same order; the total-length field and the buffer's length are 8 plus
\* the sum of 12 + path length; and at the end of the parse recv has read
\* exactly the file list, the bodies being what is left on the stream.
C5_ManifestRoundTrip ==
    /\ Len(sbuffer) = 8 + SumRecordLens(sfiles)
    /\ from_le_bytes(Slice(sbuffer, 4, 8)) = Len(sbuffer)
    /\ rres \notin {"panic_sub_overflow", "panic_slice", "err_io", "err_utf8",
                     "err_bad_header", "err_incompatible_version"}
    /\ rpc = "parse" => files = SubSeq(Entries(sfiles), 1, Len(files))
    /\ rpc \in {"files", "data"} \/ rres = "ok" => files = Entries(sfiles)
    /\ (rpc = "files" /\ fi = 0) =>
          /\ consumed = Len(sbuffer)
          /\ wire = Bodies(sfiles, 1)

C5_Witness ==
    /\ rpc = "files" /\ fi = 0
    /\ Len(sfiles) = 2
    /\ files = Entries(sfiles)
    /\ files[1].name # files[2].name
    /\ files[1].file_len # files[2].file_len

\* what the peer put on the stream
Sent == Mutate(sbuffer, mut)

\* C6: a header whose first three bytes are not "sf-" ends recv with the
\* bad-header error, one whose magic is right and whose version byte is not
\* VERSION ends it with the incompatible-version error (so the magic is
\* checked first, and the two causes differ); in both cases recv has read 4
\* bytes, not the length field, and has parsed no record.
C6_HeaderRejected ==
    (rpc # "header" /\ Len(Sent) >= 4) =>
        /\ Slice(Sent, 0, 3) # MAGIC => rres = "err_bad_header"
        /\ (Slice(Sent, 0, 3) = MAGIC /\ Sent[4] # VERSION)
              => rres = "err_incompatible_version"
        /\ rres \in {"err_bad_header", "err_incompatible_version"} =>
              /\ (Slice(Sent, 0, 3) # MAGIC \/ Sent[4] # VERSION)
              /\ consumed = 4
              /\ buffer_len = 0 /\ buffer = <<>> /\ files = <<>> /\ fsops = <<>>
              /\ rexit = [code |-> 1, fatal |-> TRUE]

\* both the magic and the version are wrong
C6_Witness ==
    /\ rres = "err_bad_header"
    /\ Slice(Sent, 0, 3) # MAGIC
    /\ Sent[4] # VERSION
    /\ consumed = 4

\* a record at offset at would extend past the body b
RecordPastEnd(b, at) ==
    /\ at < Len(b)
    /\ \/ at + 12 > Len(b)
       \/ at + 12 + from_le_bytes(Slice(b, at + 8, at + 12)) > Len(b)

\* C9: when the declared total length is below 8, or the record recv is at
\* extends past the body, recv ends with an error value (not a panic).
C9_MalformedIsError ==
    (rpc = "done" /\ consumed >= 8 /\ (buffer_len < 8 \/ RecordPastEnd(buffer, i)))
        => (rres \notin (Panics \cup {"ok"}) /\ rexit = [code |-> 1, fatal |-> TRUE])

\* the survey ended otherwise than by accepting a connection
SurveyFailed == survey \notin {"none", "running", "accepted"}

\* C7: once the survey has failed, for whatever reason, the receiver has not
\* terminated in it: the listener is blocking again and the plain accept of
\* the fallback is what recv does next, or has done (the case where the
\* switch to blocking mode itself fails is left aside).
C7_SurveyFailureFallsBack ==
    (SurveyFailed /\ rres # "panic_set_blocking") =>
        /\ rres # "panic_mask_version"
        /\ ~listener.nonblocking
        /\ \/ rpc = "fallback"
           \/ rpc = "header" /\ Len(accepted) = 1 /\ accepted[1].by = "fallback"
           \/ rres = "panic_no_client"

\* C8: at most one connection is ever accepted; when recv starts the session
\* exactly one has been, by the survey if the survey accepted and by the
\* fallback otherwise, and the listener is dropped, so the senders that
\* connected besides are never accepted.
C8_OneStream ==
    /\ Len(accepted) <= 1
    /\ Len(accepted) = 1 <=> rpc = "header"
    /\ rpc = "header" =>
          /\ listener.state = "dropped"
          /\ accepted[1].by = "survey" <=> survey = "accepted"
          /\ accepted[1].by = "fallback" <=> SurveyFailed
    /\ survey = "accepted" => rpc = "header"

\* two senders connected; the fallback accepted the first, the second is
\* left
C8_Witness ==
    /\ rpc = "header"
    /\ accepted = <<[who |-> accepted[1].who, by |-> "fallback"]>>
    /\ backlog # <<>>
    /\ \A s \in DOMAIN snd : snd[s].pc = "connected"

\* the exit main gives a result: 0 for Ok, 1 and "FATAL:" for anything else
ExitOf(res) ==
    IF res = "ok" THEN [code |-> 0, fatal |-> FALSE] ELSE [code |-> 1, fatal |-> TRUE]

\* C10: every run that ended ended through main: with exit code 0 when it
\* succeeded and, after any failure, with "FATAL:" printed and exit code 1.
C10_FatalExit ==
    /\ rpc = "done" => rexit = ExitOf(rres)
    /\ (spc = "done" /\ sres # "killed") => sexit = ExitOf(sres)
    /\ \A s \in DOMAIN snd : snd[s].pc = "done" => snd[s].exit = ExitOf(snd[s].res)

\* C11: without prefix stripping the running prefix is Some of the empty
\* string from the first record on and stays so, the length to strip is 0,
\* and every file is created at the full path of its entry.
C11_KeepStripsNothing ==
    prefix = "Keep" =>
        /\ common_prefix.v = <<>>
        /\ rpc \in {"parse", "files", "data"} => common_prefix.some
        /\ common_prefix_len = 0
        /\ \A k \in 1..Len(Created) : Created[k].path = files[k].name

\* two entries that share the directory "ab/", both created in it
C11_Witness ==
    /\ prefix = "Keep"
    /\ rres = "ok"
    /\ Len(files) = 2
    /\ files[1].name = <<97, 98, 47, 99>>
    /\ files[2].name = <<97, 98, 47, 100>>
    /\ Len(Created) = 2
    /\ Created[2].path = files[2].name

\* p holds no path separator
NoSeparator(p) == \A k \in 1..Len(p) : p[k] \notin PATH_SEPARATORS

\* C12: with stripping and a file list of one entry, the stripped bytes are
\* the entry's path up to and including its last separator (none when it
\* has no separator): the file is created at the final component.
C12_SingleEntry ==
    (prefix = "Strip" /\ Len(sfiles) = 1 /\ (rpc \in {"files", "data"} \/ rres = "ok")) =>
        /\ Len(files) = 1
        /\ common_prefix_len <= Len(files[1].name)
        /\ common_prefix_len = 0 \/ files[1].name[common_prefix_len] \in PATH_SEPARATORS
        /\ NoSeparator(DestPath(files[1].name, common_prefix_len))
        /\ \A k \in 1..Len(Created) :
              /\ NoSeparator(Created[k].path)
              /\ files[1].name = Slice(files[1].name, 0, common_prefix_len) \o Created[k].path

\* "a/b/c" alone is created as "c"
C12_Witness ==
    /\ prefix = "Strip"
    /\ Len(sfiles) = 1
    /\ Len(files) = 1
    /\ files[1].name = <<97, 47, 98, 47, 99>>
    /\ Len(Created) = 1
    /\ Created[1].path = <<99>>

\* the length of the longest byte string that every path of the file list
\* starts with
LongestCommonPrefixLen ==
    Max({n \in 0..Len(files[1].name) : SharedPrefix(n)})

\* C13: with stripping, once a non-empty file list is parsed, when the
\* longest common prefix of its paths holds no separator the length to strip
\* is 0, and every file is created at the full path of its entry.
C13_NoSharedDirectory ==
    (prefix = "Strip" /\ files # <<>> /\ (rpc \in {"files", "data"} \/ rres = "ok")
       /\ NoSeparator(Slice(files[1].name, 0, LongestCommonPrefixLen))) =>
        /\ common_prefix_len = 0
        /\ \A k \in 1..Len(Created) : Created[k].path = files[k].name

\* the offset in the file list buffer of the record of the k-th file
RecordOffset(k) == 8 + SumRecordLens(SubSeq(sfiles, 1, k - 1))

\* C14: in the file list buffer send has built, the record of every file
\* holds the length of the file's path in its name-length field and then
\* that many bytes: the path with '/' for every '\' and every other byte as
\* it is; no backslash is left in it, and the records fill the buffer.
C14_BackslashNormalised ==
    sbuffer # <<>> =>
        /\ Len(sbuffer) = 8 + SumRecordLens(sfiles)
        /\ \A k \in 1..Len(sfiles) :
              LET name == sfiles[k].name
                  at   == RecordOffset(k)
                  sent == Slice(sbuffer, at + 12, at + 12 + Len(name))
              IN  /\ from_le_bytes(Slice(sbuffer, at + 8, at + 12)) = Len(name)
                  /\ \A j \in 1..Len(name) :
                        /\ sent[j] # 92
                        /\ sent[j] = IF name[j] = 92 THEN 47 ELSE name[j]

\* the second of two paths holds a backslash
C14_Witness ==
    /\ sbuffer # <<>>
    /\ Len(sfiles) = 2
    /\ \E j \in 1..Len(sfiles[2].name) : sfiles[2].name[j] = 92
    /\ spc = "connect"

\* the 20 bytes b are the datagram of the address a: its family, its
\* octets, its port with the high byte first, zeros to the end
IsDatagramOf(b, a) ==
    LET n == IF a.fam = 4 THEN 4 ELSE 16 IN
    /\ Len(b) = 20
    /\ a.fam \in {4, 6}
    /\ b[1] = a.fam
    /\ \A k \in 1..n : b[1 + k] = a.octets[k]
    /\ b[n + 2] \in 0..255 /\ b[n + 3] \in 0..255
    /\ 256 * b[n + 2] + b[n + 3] = a.port
    /\ \A k \in (n + 4)..20 : b[k] = 0

\* C15: the datagram serialize_socket_addr gives for an address is 20
\* bytes: 4 or 6, the octets of the address, the port big-endian, zeros;
\* deserialize_socket_addr gives that address back; and a datagram whose
\* byte 0 is neither 4 nor 6 is an error.
C15_AddrRoundTrip ==
    /\ call.pc \in {"serialized", "deserialized"} => IsDatagramOf(call.buffer, call.addr)
    /\ call.pc = "deserialized" => call.result = call.addr
    /\ (call.pc = "decoded" /\ call.buffer[1] \notin {4, 6}) => call.result = NoSocketAddr

\* an IPv6 address with port 8370 (0x20b2) came back
C15_Witness ==
    /\ call.pc = "deserialized"
    /\ call.addr.fam = 6
    /\ call.addr.port = PORT
    /\ call.result = call.addr
    /\ call.buffer[18] = 32 /\ call.buffer[19] = 178

\* bit j of the byte x
Bit(x, j) == (x \div (2 ^ j)) % 2

\* the octets r are the octets a or-ed with the complement of the octets m
IsOrNot(r, a, m) ==
    /\ Len(r) = Len(a)
    /\ \A k \in 1..Len(a) :
          /\ r[k] \in 0..255
          /\ \A j \in 0..7 : Bit(r[k], j) = 1 <=> (Bit(a[k], j) = 1 \/ Bit(m[k], j) = 0)

\* C16: a step of the survey from its poll to its delay sends one datagram,
\* the listener's address to the signaling port of the subnet's broadcast
\* address; the delay sends nothing and leads to the next poll; a poll that
\* accepts or fails sends nothing, and after the poll that accepted recv is
\* out of the loop and no datagram is sent any more.
C16_SurveyLoop ==
    [][ /\ (rpc = "poll" /\ rpc' = "sleep") =>
              /\ backlog = <<>>
              /\ broadcasts' = broadcasts + 1
              /\ IsDatagramOf(datagram'.data, SocketAddr(addr.ip, PORT))
              /\ datagram'.to.fam = addr.ip.fam
              /\ datagram'.to.port = SIGNALING_PORT
              /\ IsOrNot(datagram'.to.octets, addr.ip.octets, addr.subnet_mask.octets)
        /\ ~(rpc = "poll" /\ rpc' = "sleep") =>
              (broadcasts' = broadcasts /\ datagram' = datagram)
        /\ rpc = "sleep" => rpc' \in {"sleep", "poll"}
        /\ (rpc = "poll" /\ survey' = "accepted") => (backlog # <<>> /\ rpc' = "header")
        /\ survey = "accepted" => (survey' = "accepted" /\ rpc' \notin {"poll", "sleep"}) ]_vars

\* two polls found nobody, the third accepted
C16_Witness ==
    /\ broadcasts = 2
    /\ survey = "accepted"
    /\ rpc = "header"
    /\ datagram.to = [fam |-> 4, octets |-> <<192, 168, 1, 255>>, port |-> SIGNALING_PORT]

\* C20: make_broadcast_addr on an address and a mask of one family gives
\* the address of that family whose every octet is the octet of the address
\* or-ed with the complement of the octet of the mask, with the port of the
\* address; on an address and a mask of two families it gives no address.
C20_BroadcastAddr ==
    call.pc = "broadcast" =>
        IF call.addr.fam = call.subnet_mask.fam
        THEN /\ call.result.fam = call.addr.fam
             /\ call.result.port = call.addr.port
             /\ IsOrNot(call.result.octets, call.addr.octets, call.subnet_mask.octets)
        ELSE call.result = NoSocketAddr

\* 172.16.37.200 with the mask 255.255.254.0: 172.16.37.255
C20_Witness ==
    /\ call.pc = "broadcast"
    /\ call.addr.octets = <<172, 16, 37, 200>>
    /\ call.subnet_mask.octets = <<255, 255, 254, 0>>
    /\ call.result.octets = <<172, 16, 37, 255>>
    /\ call.result.port = call.addr.port

RECURSIVE SumFileLens(_, _)
\* the declared lengths of the first n entries of fs, added up
SumFileLens(fs, n) ==
    IF n = 0 THEN 0 ELSE fs[n].file_len + SumFileLens(fs, n - 1)

C18_DirectoriesOnce ==
    /\ \A a, b \in 1..Len(fsops) :
          (fsops[a].op = "create_dir_all" /\ fsops[b].op = "create_dir_all"
             /\ fsops[a].path = fsops[b].path) => a = b
    /\ \A b \in 1..Len(fsops) :
          (fsops[b].op = "create" /\ PathParent(fsops[b].path).has) =>
              \E a \in 1..(b - 1) :
                  /\ fsops[a].op = "create_dir_all"
                  /\ fsops[a].path = PathParent(fsops[b].path).dir

\* "ab/c" and "ab/d" are created, and "ab" once, before both
C18_Witness ==
    /\ Len(fsops) = 3
    /\ fsops[1].op = "create_dir_all" /\ fsops[1].path = <<97, 98>>
    /\ fsops[2].op = "create" /\ fsops[2].path = <<97, 98, 47, 99>>
    /\ fsops[3].op = "create" /\ fsops[3].path = <<97, 98, 47, 100>>

\* the ways recv ends before the file list is read and parsed in full
BeforeFiles ==
    {"err_bad_header", "err_incompatible_version", "err_io", "err_utf8",
     "panic_sub_overflow", "panic_slice"}

\* C19: when recv has issued a filesystem call, it has read the whole file
\* list, every record of it is an entry (none was skipped) and every path
\* is valid UTF-8; and when recv ended on the header, on a short file list
\* or on a path that is not valid UTF-8, it has issued none and has ended
\* there.
C19_NothingBeforeValidated ==
    /\ (fsops # <<>> \/ created_dirs # {} \/ rpc \in {"files", "data"}) =>
          /\ rres \notin BeforeFiles
          /\ consumed >= buffer_len
          /\ Len(buffer) = buffer_len - 8
          /\ i = Len(buffer)
          /\ SumRecordLens(files) = Len(buffer)
          /\ \A k \in 1..Len(files) : \A j \in 1..Len(files[k].name) :
                files[k].name[j] < 128
    /\ rres \in BeforeFiles => (rpc = "done" /\ fsops = <<>> /\ created_dirs = {})

\* the path of the second entry is not valid UTF-8; the first was parsed
C19_Witness ==
    /\ rres = "err_utf8"
    /\ Len(sfiles) = 2
    /\ Len(files) = 1
    /\ fsops = <<>>
    /\ mut.val = 255

\* the sender has the listener's address from a datagram, has dialled it,
\* and the survey has accepted that connection and is over
Discovered ==
    /\ snd[1].target = SocketAddr(addr.ip, PORT)
    /\ snd[1].inbox = serialize_socket_addr(SocketAddr(addr.ip, PORT))
    /\ snd[1].pc = "connected"
    /\ accepted = <<[who |-> 1, by |-> "survey"]>>
    /\ survey = "accepted"
    /\ rpc = "header"
    /\ listener.state = "dropped"

\* the sender has ended with a fatal error, having dialled nothing
DiscoveryFailed ==
    /\ snd[1].pc = "done"
    /\ snd[1].res \in {"err_io", "err_invalid_socket_addr"}
    /\ snd[1].exit = [code |-> 1, fatal |-> TRUE]
    /\ snd[1].target = NoSocketAddr
    /\ backlog = <<>>
    /\ accepted = <<>>

=============================================================================
